---- MODULE Spec2Model ----
(***************************************************************************)
(* The questionnaire engine of SpecCraft                                   *)
(* (src/src/lib/specification-engine/questionnaire-engine.ts), its         *)
(* question catalog (base-questions.ts) and the generate operation of the  *)
(* MCP server (src/src/mcp-server/speccraft-server.ts).                    *)
(*                                                                         *)
(* Every engine method is an operator from an engine (its catalog and its  *)
(* session) to a result; every action applies one method to the engine of  *)
(* the state.  Indexes are the source's: the cursor and the results of     *)
(* findIndex count from 0.                                                 *)
(***************************************************************************)
EXTENDS Integers, Sequences, FiniteSets, TLC

VARIABLES
    questions,   \* QuestionnaireEngine.questions: the ordered catalog
    session,     \* QuestionnaireEngine.session
    now,         \* the clock read by new Date(): one tick per call
    lastOp,      \* the call made last: its name, arguments and outcome
    before,      \* the engine as it was when the last call started
    specFiles,   \* the specs directory and the generate calls in flight
    server,      \* SpecCraftMCPServer: its session map, file and calls
    generator    \* a MarkdownGenerator: its responses and its output

vars == <<questions, session, now, lastOp, before, specFiles, server,
          generator>>

-----------------------------------------------------------------------------
(* Bounds of the model.                                                    *)

\* calls made in one behaviour of Spec
MaxSteps == 4
\* addDynamicQuestion calls made in one behaviour of Spec
MaxDyn == 2
\* calls made in one behaviour of SpecLong
MaxLongSteps == 24

-----------------------------------------------------------------------------
(* JavaScript values: string | boolean | string[] | undefined.             *)

Str(s) == [kind |-> "string", str |-> s, bool |-> FALSE, items |-> <<>>]
Bool(b) == [kind |-> "boolean", str |-> "", bool |-> b, items |-> <<>>]
Arr(xs) == [kind |-> "array", str |-> "", bool |-> FALSE, items |-> xs]
Undefined == [kind |-> "undefined", str |-> "", bool |-> FALSE, items |-> <<>>]

\* !value
Falsy(v) ==
    \/ v.kind = "undefined"
    \/ v.kind = "string" /\ v.str = ""
    \/ v.kind = "boolean" /\ ~v.bool

\* faulty variant: compares the values as texts, String(a) === String(b)
StrictEqualsAsText(a, b) ==
    LET String(v) == CASE v.kind = "string" -> v.str
                       [] v.kind = "boolean" ->
                              IF v.bool THEN "true" ELSE "false"
                       [] OTHER -> v.kind
    IN  a.kind # "array" /\ String(a) = String(b)

\* a === b, for a rule value b that is a string or a boolean; an array is
\* an object and is identical to no primitive
StrictEquals(a, b) ==
    /\ a.kind = b.kind
    /\ a.kind # "array"
    /\ a = b

Min(a, b) == IF a <= b THEN a ELSE b

\* Array.prototype.findIndex, given the outcome of the test on each element:
\* the first index (from 0) whose element passes, -1 when there is none
FindIndex(passes) ==
    IF \E i \in 1..Len(passes) : passes[i]
    THEN (CHOOSE i \in 1..Len(passes) :
              passes[i] /\ \A j \in 1..(i - 1) : ~passes[j]) - 1
    ELSE -1

\* Array.prototype.splice(index, 0, x)
InsertAt(s, index, x) ==
    SubSeq(s, 1, index) \o <<x>> \o SubSeq(s, index + 1, Len(s))

-----------------------------------------------------------------------------
(* The catalog.                                                            *)

NoRule == <<>>
Rule(questionId, value) == <<[questionId |-> questionId, value |-> value]>>

Question(id, type, required, dependsOn, order) ==
    [id |-> id, type |-> type, required |-> required,
     dependsOn |-> dependsOn, order |-> order]

baseQuestions == <<
    Question("feature-overview", "textarea", TRUE, NoRule, 1),
    Question("target-users", "textarea", TRUE, NoRule, 2),
    Question("business-value", "textarea", TRUE, NoRule, 3),
    Question("core-functionality", "textarea", TRUE, NoRule, 10),
    Question("user-interactions", "textarea", TRUE, NoRule, 11),
    Question("data-requirements", "textarea", TRUE, NoRule, 12),
    Question("integrations-needed", "textarea", FALSE, NoRule, 13),
    Question("ui-requirements", "textarea", TRUE, NoRule, 20),
    Question("responsive-design", "boolean", TRUE, NoRule, 21),
    Question("accessibility-requirements", "textarea", FALSE, NoRule, 22),
    Question("performance-requirements", "textarea", FALSE, NoRule, 30),
    Question("scalability-needs", "textarea", FALSE, NoRule, 31),
    Question("sensitive-data", "boolean", TRUE, NoRule, 40),
    Question("authentication-required", "select", TRUE, NoRule, 41),
    Question("security-requirements", "textarea", FALSE,
             Rule("sensitive-data", Bool(TRUE)), 42),
    Question("error-scenarios", "textarea", TRUE, NoRule, 50),
    Question("validation-rules", "textarea", FALSE, NoRule, 51),
    Question("edge-cases", "textarea", TRUE, NoRule, 52),
    Question("feature-dependencies", "textarea", FALSE, NoRule, 60),
    Question("timeline-constraints", "textarea", FALSE, NoRule, 61),
    Question("success-criteria", "textarea", TRUE, NoRule, 62) >>

\* [...qs].sort((a, b) => a.order - b.order): a stable sort, by insertion
RECURSIVE SortByOrder(_)
SortByOrder(qs) ==
    IF qs = <<>> THEN <<>>
    ELSE LET init == SortByOrder(SubSeq(qs, 1, Len(qs) - 1))
             x == qs[Len(qs)]
             at == FindIndex([i \in 1..Len(init) |-> init[i].order > x.order])
         IN  IF at = -1 THEN Append(init, x) ELSE InsertAt(init, at, x)

\* the catalog of a new engine
sortedBaseQuestions == SortByOrder(baseQuestions)

-----------------------------------------------------------------------------
(* QuestionnaireEngine.  An engine is [questions, session].                *)

Engine(qs, s) == [questions |-> qs, session |-> s]

\* constructor
NewEngine(sessionId, t) ==
    Engine(sortedBaseQuestions,
           [id |-> sessionId,
            currentQuestionIndex |-> 0,
            responses |-> <<>>,
            isComplete |-> FALSE,
            createdAt |-> t,
            updatedAt |-> t])

\* faulty variant: reads the rule's answer off the latest response only
shouldAskQuestionLatestOnly(eng, question) ==
    IF question.dependsOn # <<>>
    THEN LET rule == question.dependsOn[1]
             rs == eng.session.responses
         IN  /\ Len(rs) > 0
             /\ rs[Len(rs)].questionId = rule.questionId
             /\ StrictEquals(rs[Len(rs)].value, rule.value)
    ELSE TRUE

shouldAskQuestion(eng, question) ==
    IF question.dependsOn # <<>>
    THEN LET rule == question.dependsOn[1]
             rs == eng.session.responses
             found == FindIndex([i \in 1..Len(rs) |->
                                  rs[i].questionId = rule.questionId])
         IN  IF found = -1
             THEN FALSE
             ELSE StrictEquals(rs[found + 1].value, rule.value)
    ELSE TRUE

getAvailableQuestions(eng) ==
    SelectSeq(eng.questions, LAMBDA q : shouldAskQuestion(eng, q))

\* faulty variant: falls back to the last eligible question instead of null
getCurrentQuestionOrLast(eng) ==
    LET availableQuestions == getAvailableQuestions(eng)
        i == eng.session.currentQuestionIndex
    IN  IF Len(availableQuestions) = 0
        THEN <<>>
        ELSE <<availableQuestions[Min(i, Len(availableQuestions) - 1) + 1]>>

\* the current question as a list of at most one question: <<>> is null
getCurrentQuestion(eng) ==
    LET availableQuestions == getAvailableQuestions(eng)
        i == eng.session.currentQuestionIndex
    IN  IF i >= 0 /\ i < Len(availableQuestions)
        THEN <<availableQuestions[i + 1]>>
        ELSE <<>>

\* the test of line 59
IsEmptyAnswer(value) ==
    Falsy(value) \/ (value.kind = "array" /\ Len(value.items) = 0)

Response(questionId, value, t) ==
    [questionId |-> questionId, value |-> value, timestamp |-> t]

\* faulty variant: pushes the new response without removing the old one
AnsweredKeepingOld(eng, q, value, t) ==
    LET moved == [eng.session EXCEPT
                     !.responses = Append(@, Response(q.id, value, t)),
                     !.currentQuestionIndex = @ + 1,
                     !.updatedAt = t]
        availableQuestions == getAvailableQuestions(Engine(eng.questions, moved))
    IN  IF moved.currentQuestionIndex >= Len(availableQuestions)
        THEN [moved EXCEPT !.isComplete = TRUE]
        ELSE moved

\* the session after lines 63-83, for the current question q
Answered(eng, q, value, t) ==
    LET kept == SelectSeq(eng.session.responses,
                          LAMBDA r : r.questionId # q.id)
        moved == [eng.session EXCEPT
                     !.responses = Append(kept, Response(q.id, value, t)),
                     !.currentQuestionIndex = @ + 1,
                     !.updatedAt = t]
        availableQuestions == getAvailableQuestions(Engine(eng.questions, moved))
    IN  IF moved.currentQuestionIndex >= Len(availableQuestions)
        THEN [moved EXCEPT !.isComplete = TRUE]
        ELSE moved

Thrown(eng, message) == [ok |-> FALSE, error |-> message, engine |-> eng]
Returned(eng) == [ok |-> TRUE, error |-> "", engine |-> eng]

\* faulty variant: validates the value after it has recorded the response
answerCurrentQuestionRecordingFirst(eng, value, t) ==
    LET currentQuestion == getCurrentQuestion(eng)
    IN  IF currentQuestion = <<>>
        THEN Thrown(eng, "No current question to answer")
        ELSE LET recorded == Engine(eng.questions,
                                 Answered(eng, currentQuestion[1], value, t))
             IN  IF currentQuestion[1].required /\ IsEmptyAnswer(value)
                 THEN Thrown(recorded, "This question is required")
                 ELSE Returned(recorded)

answerCurrentQuestion(eng, value, t) ==
    LET currentQuestion == getCurrentQuestion(eng)
    IN  IF currentQuestion = <<>>
        THEN Thrown(eng, "No current question to answer")
        ELSE IF currentQuestion[1].required /\ IsEmptyAnswer(value)
        THEN Thrown(eng, "This question is required")
        ELSE Returned(Engine(eng.questions,
                             Answered(eng, currentQuestion[1], value, t)))

\* faulty variant: steps back without clearing the completion flag
goToPreviousQuestionKeepingFlag(eng, t) ==
    IF eng.session.currentQuestionIndex > 0
    THEN [ret |-> TRUE,
          engine |-> Engine(eng.questions,
                        [eng.session EXCEPT
                            !.currentQuestionIndex = @ - 1,
                            !.updatedAt = t])]
    ELSE [ret |-> FALSE, engine |-> eng]

goToPreviousQuestion(eng, t) ==
    IF eng.session.currentQuestionIndex > 0
    THEN [ret |-> TRUE,
          engine |-> Engine(eng.questions,
                        [eng.session EXCEPT
                            !.currentQuestionIndex = @ - 1,
                            !.isComplete = FALSE,
                            !.updatedAt = t])]
    ELSE [ret |-> FALSE, engine |-> eng]

\* faulty variant: looks the question up in the whole catalog
goToQuestionInCatalog(eng, questionId, t) ==
    LET questionIndex ==
            FindIndex([i \in 1..Len(eng.questions) |->
                          eng.questions[i].id = questionId])
    IN  IF questionIndex # -1
        THEN [ret |-> TRUE,
              engine |-> Engine(eng.questions,
                            [eng.session EXCEPT
                                !.currentQuestionIndex = questionIndex,
                                !.isComplete = FALSE,
                                !.updatedAt = t])]
        ELSE [ret |-> FALSE, engine |-> eng]

goToQuestion(eng, questionId, t) ==
    LET availableQuestions == getAvailableQuestions(eng)
        questionIndex ==
            FindIndex([i \in 1..Len(availableQuestions) |->
                          availableQuestions[i].id = questionId])
    IN  IF questionIndex # -1
        THEN [ret |-> TRUE,
              engine |-> Engine(eng.questions,
                            [eng.session EXCEPT
                                !.currentQuestionIndex = questionIndex,
                                !.isComplete = FALSE,
                                !.updatedAt = t])]
        ELSE [ret |-> FALSE, engine |-> eng]

\* faulty variant: reports the number of responses without capping it
getProgressUncapped(eng) ==
    LET availableQuestions == getAvailableQuestions(eng)
        answeredQuestions == Len(eng.session.responses)
        total == Len(availableQuestions)
    IN  [current |-> answeredQuestions,
         total |-> total,
         percentage |-> IF total > 0
                        THEN (200 * answeredQuestions + total) \div (2 * total)
                        ELSE 0]

getProgress(eng) ==
    LET availableQuestions == getAvailableQuestions(eng)
        answeredQuestions == Len(eng.session.responses)
        total == Len(availableQuestions)
        current == Min(answeredQuestions, total)
    IN  [current |-> current,
         total |-> total,
         \* Math.round(x) of a non-negative x is floor(x + 1/2)
         percentage |-> IF total > 0
                        THEN (200 * current + total) \div (2 * total)
                        ELSE 0]

isComplete(eng) == eng.session.isComplete

getSession(eng) == eng.session

\* fromSession: a new engine, hence the base catalog, over the given session
fromSession(s) ==
    Engine(NewEngine(s.id, 0).questions, s)

\* faulty variant: inserts before the first question of the same or a
\* greater order
addDynamicQuestionBeforeTies(eng, question, t) ==
    LET insertIndex ==
            FindIndex([i \in 1..Len(eng.questions) |->
                          eng.questions[i].order >= question.order])
    IN  Engine(IF insertIndex = -1
               THEN Append(eng.questions, question)
               ELSE InsertAt(eng.questions, insertIndex, question),
               [eng.session EXCEPT !.updatedAt = t])

addDynamicQuestion(eng, question, t) ==
    LET insertIndex ==
            FindIndex([i \in 1..Len(eng.questions) |->
                          eng.questions[i].order > question.order])
    IN  Engine(IF insertIndex = -1
               THEN Append(eng.questions, question)
               ELSE InsertAt(eng.questions, insertIndex, question),
               [eng.session EXCEPT !.updatedAt = t])

getUnansweredRequiredQuestions(eng) ==
    LET availableQuestions == getAvailableQuestions(eng)
        answeredQuestionIds ==
            {eng.session.responses[i].questionId :
                 i \in 1..Len(eng.session.responses)}
    IN  SelectSeq(availableQuestions,
                  LAMBDA q : q.required /\ q.id \notin answeredQuestionIds)

-----------------------------------------------------------------------------
(* SpecCraftMCPServer.generateSpecification on the stored session: the     *)
(* engine is rebuilt from the session, and unless the engine says the      *)
(* session is not complete the call goes on to its four awaits: fs.mkdir   *)
(* of specs and fs.readdir in getNextSpecNumber, fs.mkdir of the numbered  *)
(* directory, fs.writeFile of the markdown. Each await completes in a step *)
(* of its own, and other calls run in between. Every caller gives the one  *)
(* feature title, so a numbered directory is known by its number.          *)

\* the specs directory and the calls in flight: the numbers of the numbered
\* directories, the numbers of those that hold a specification file, and
\* for each call past its check the await it waits for and its number
NoSpecs == [generating |-> <<>>, dirs |-> {}, files |-> {}]

\* getNextSpecNumber on the entries fs.readdir gave: Math.max of the
\* numbers plus one, or 1
getNextSpecNumber(dirs) ==
    IF dirs = {}
    THEN 1
    ELSE (CHOOSE n \in dirs : \A m \in dirs : m <= n) + 1

\* a call passes its check and awaits the fs.mkdir of getNextSpecNumber
startGeneration(sp) ==
    [sp EXCEPT !.generating = Append(@, [pc |-> "mkdirSpecs", number |-> 0])]

\* the await of the k-th call in flight completes: fs.mkdir of specs;
\* fs.readdir, which gives the number; fs.mkdir of the numbered directory;
\* fs.writeFile, after which the call is over
resumeGeneration(sp, k) ==
    LET call == sp.generating[k]
    IN  CASE call.pc = "mkdirSpecs" ->
                 [sp EXCEPT !.generating[k].pc = "readdir"]
          [] call.pc = "readdir" ->
                 [sp EXCEPT !.generating[k] =
                      [pc |-> "mkdir", number |-> getNextSpecNumber(sp.dirs)]]
          [] call.pc = "mkdir" ->
                 [sp EXCEPT !.generating[k].pc = "writeFile",
                            !.dirs = @ \cup {call.number}]
          [] OTHER ->
                 [sp EXCEPT !.generating =
                                SubSeq(@, 1, k - 1) \o SubSeq(@, k + 1, Len(@)),
                            !.files = @ \cup {call.number}]

\* faulty variant: the writes are started before the completion check
generateSpecificationWritingFirst(s) ==
    LET engine == fromSession(s)
    IN  IF ~isComplete(engine)
        THEN [ok |-> FALSE, error |-> "Session is not complete",
              percentage |-> getProgress(engine).percentage, writes |-> TRUE]
        ELSE [ok |-> TRUE, error |-> "",
              percentage |-> getProgress(engine).percentage, writes |-> TRUE]

\* the call up to its first await: writes says whether it goes on to them
generateSpecification(s) ==
    LET engine == fromSession(s)
    IN  IF ~isComplete(engine)
        THEN [ok |-> FALSE, error |-> "Session is not complete",
              percentage |-> getProgress(engine).percentage, writes |-> FALSE]
        ELSE [ok |-> TRUE, error |-> "",
              percentage |-> getProgress(engine).percentage, writes |-> TRUE]

-----------------------------------------------------------------------------
(* specification-factory.ts: validateSpecificationCompleteness rebuilds an *)
(* engine from the session and reports the texts of its unanswered         *)
(* required questions.                                                     *)

\* Question.text, by question id
text(question) ==
    CASE question.id = "feature-overview" ->
             "Provide a detailed overview of what this feature should accomplish and why it's needed."
      [] question.id = "target-users" ->
             "Who are the primary users of this feature? Describe the user personas."
      [] question.id = "business-value" ->
             "What business value or problem does this feature solve?"
      [] question.id = "core-functionality" ->
             "What are the core functions this feature must perform? List each major capability."
      [] question.id = "user-interactions" ->
             "How will users interact with this feature? Describe the user journey step by step."
      [] question.id = "data-requirements" ->
             "What data does this feature need to collect, process, or display?"
      [] question.id = "integrations-needed" ->
             "Does this feature need to integrate with any external services, APIs, or existing systems?"
      [] question.id = "ui-requirements" ->
             "Describe the user interface requirements. What should users see and how should it be organized?"
      [] question.id = "responsive-design" ->
             "Does this feature need to work on mobile devices?"
      [] question.id = "accessibility-requirements" ->
             "Are there specific accessibility requirements for this feature?"
      [] question.id = "performance-requirements" ->
             "Are there specific performance requirements (load time, response time, etc.)?"
      [] question.id = "scalability-needs" ->
             "How many users should this feature support? Any specific scalability requirements?"
      [] question.id = "sensitive-data" ->
             "Does this feature handle sensitive or personal data?"
      [] question.id = "authentication-required" ->
             "Does this feature require user authentication?"
      [] question.id = "security-requirements" ->
             "What specific security requirements does this feature have?"
      [] question.id = "error-scenarios" ->
             "What could go wrong with this feature? List potential error scenarios and how they should be handled."
      [] question.id = "validation-rules" ->
             "What validation rules should be applied to user inputs?"
      [] question.id = "edge-cases" ->
             "What edge cases should be considered (empty states, maximum limits, unusual data, etc.)?"
      [] question.id = "feature-dependencies" ->
             "Does this feature depend on other features being completed first?"
      [] question.id = "timeline-constraints" ->
             "Are there any timeline constraints or deadlines for this feature?"
      [] question.id = "success-criteria" ->
             "How will you know this feature is successful? What are the measurable success criteria?"
      [] OTHER -> "Follow-up question"

validateSpecificationCompleteness(s) ==
    LET engine == fromSession(s)
        missingQuestions == getUnansweredRequiredQuestions(engine)
    IN  [isValid |-> Len(missingQuestions) = 0,
         missingRequiredQuestions |->
             [i \in 1..Len(missingQuestions) |-> text(missingQuestions[i])]]

-----------------------------------------------------------------------------
(* SpecCraftMCPServer: the in-memory session map, the sessions file, the   *)
(* initializeStorage the constructor starts without awaiting it, and the   *)
(* file writes in flight. A handler runs up to its first await in one      *)
(* step; what it awaits completes in a later step.                         *)

MaxCalls == 2

\* the ids generateId gives to the sessions the server creates, in turn
NewIds == <<"questionnaire_1", "questionnaire_2">>

\* the number of characters of an id generateId gives: the 14 of
\* questionnaire_, the 13 digits of Date.now(), the _ and the digits of
\* Math.random() in base 36 that substr(2, 9) takes: 9 of them, or as
\* many as the number has when it has fewer, none for 0
NewIdCharacters == 28..37

\* the id of a session saved by an earlier run of the server, and the
\* number of its characters
PersistedId == "questionnaire_0"
PersistedIdCharacters == [id \in {PersistedId} |-> 37]

\* properties every plain object inherits from Object.prototype
ObjectPrototypeKeys ==
    {"constructor", "toString", "valueOf", "hasOwnProperty", "__proto__"}

\* session ids a caller passes
CallIds == {"questionnaire_0", "questionnaire_1", "questionnaire_2",
            "constructor"}

\* answers a caller passes to answerQuestion
AnswerValues == {Str("a"), Str("")}

\* Date.prototype.toJSON: the ISO string of the time t, written -(t + 1);
\* a string stays the string it is
toJSON(t) == IF t >= 0 THEN -(t + 1) ELSE t

\* JSON.stringify of a session: the dates become strings
stringifySession(s) ==
    [s EXCEPT !.createdAt = toJSON(s.createdAt),
              !.updatedAt = toJSON(s.updatedAt),
              !.responses =
                  [i \in 1..Len(s.responses) |->
                      [s.responses[i] EXCEPT
                          !.timestamp = toJSON(s.responses[i].timestamp)]]]

\* JSON.stringify(this.sessions, null, 2)
stringify(sessions) ==
    [id \in DOMAIN sessions |-> stringifySession(sessions[id])]

\* the number of characters of the id of a base question
questionIdCharacters(questionId) ==
    CASE questionId = "feature-overview" -> 16
      [] questionId = "target-users" -> 12
      [] questionId = "business-value" -> 14
      [] questionId = "core-functionality" -> 18
      [] questionId = "user-interactions" -> 17
      [] questionId = "data-requirements" -> 17
      [] questionId = "integrations-needed" -> 19
      [] questionId = "ui-requirements" -> 15
      [] questionId = "responsive-design" -> 17
      [] questionId = "accessibility-requirements" -> 26
      [] questionId = "performance-requirements" -> 24
      [] questionId = "scalability-needs" -> 17
      [] questionId = "sensitive-data" -> 14
      [] questionId = "authentication-required" -> 23
      [] questionId = "security-requirements" -> 21
      [] questionId = "error-scenarios" -> 15
      [] questionId = "validation-rules" -> 16
      [] questionId = "edge-cases" -> 10
      [] questionId = "feature-dependencies" -> 20
      [] questionId = "timeline-constraints" -> 20
      [] questionId = "success-criteria" -> 16

\* the number of characters JSON.stringify gives an answer: a string of no
\* or one character in its quotes, true, false
valueCharacters(value) ==
    CASE value.kind = "string" -> IF value.str = "" THEN 2 ELSE 3
      [] value.kind = "boolean" -> IF value.bool THEN 4 ELSE 5

\* the characters of the items of responses: an item is its three lines in
\* their braces, indented, and the comma or line end after it
RECURSIVE responsesCharacters(_)
responsesCharacters(responses) ==
    IF responses = <<>>
    THEN 0
    ELSE 110 + questionIdCharacters(Head(responses).questionId)
             + valueCharacters(Head(responses).value)
             + responsesCharacters(Tail(responses))

\* the characters of the entry of a session that has no response, whose
\* index is of one digit and which is not complete, without those of its
\* id: the title is Blog and the description is empty
SessionCharacters == 249

\* the characters of the entry of a session whose id has n characters: the
\* id stands in it twice, as the key and as the id; [] becomes the items
\* between brackets on lines of their own, 10 has two digits, true is
\* shorter than false
sessionCharacters(s, n) ==
    SessionCharacters
        + 2 * n
        + (IF s.currentQuestionIndex >= 10 THEN 1 ELSE 0)
        - (IF s.isComplete THEN 1 ELSE 0)
        + (IF s.responses = <<>>
           THEN 0
           ELSE 4 + responsesCharacters(s.responses))

\* the number of characters of JSON.stringify(this.sessions, null, 2): {},
\* or the entries on lines of their own between the braces; idCharacters
\* gives the number of characters of each id
RECURSIVE entriesCharacters(_, _, _)
entriesCharacters(sessions, ids, idCharacters) ==
    IF ids = {}
    THEN 0
    ELSE LET id == CHOOSE x \in ids : TRUE
         IN  sessionCharacters(sessions[id], idCharacters[id]) + 2
                 + entriesCharacters(sessions, ids \ {id}, idCharacters)

length(sessions, idCharacters) ==
    2 + entriesCharacters(sessions, DOMAIN sessions, idCharacters)

\* JSON.parse(data): nothing turns the strings back into dates
parse(data) == data

\* sessions: SessionStorage = {}
NoSessions == [id \in {} |-> NewEngine(id, 0).session]

\* this.sessions[id] = s
Put(sessions, id, s) ==
    [x \in DOMAIN sessions \cup {id} |-> IF x = id THEN s ELSE sessions[x]]

\* the engine after "a" is given to every question from the current one on
RECURSIVE AnsweredThrough(_, _)
AnsweredThrough(eng, t) ==
    IF getCurrentQuestion(eng) = <<>>
    THEN eng
    ELSE AnsweredThrough(answerCurrentQuestion(eng, Str("a"), t).engine, t + 1)

\* a complete session, as an earlier run left it
persistedSession == getSession(AnsweredThrough(NewEngine(PersistedId, 0), 1))

\* the engine after "a" is given to n questions from the current one on
RECURSIVE AnsweredTimes(_, _, _)
AnsweredTimes(eng, t, n) ==
    IF n = 0 \/ getCurrentQuestion(eng) = <<>>
    THEN eng
    ELSE AnsweredTimes(answerCurrentQuestion(eng, Str("a"), t).engine,
                       t + 1, n - 1)

\* a session an earlier run left with its last two questions to answer
unfinishedSession ==
    LET engine == NewEngine(PersistedId, 0)
    IN  getSession(AnsweredTimes(engine, 1,
                                 Len(getAvailableQuestions(engine)) - 2))

\* what sessions.json holds: the text of a JSON.stringify, which
\* JSON.parse turns into data, or characters JSON.parse throws on, none in
\* a file just truncated
Text(sessions, idCharacters) ==
    [valid |-> TRUE, data |-> stringify(sessions),
     length |-> length(sessions, idCharacters)]

Invalid(n) == [valid |-> FALSE, data |-> NoSessions, length |-> n]

\* .speccraft/sessions.json when the server starts: missing, or holding the
\* session of an earlier run, complete or not
NoFile == <<>>
PersistedFiles ==
    {NoFile,
     <<Text(Put(NoSessions, PersistedId, persistedSession),
            PersistedIdCharacters)>>,
     <<Text(Put(NoSessions, PersistedId, unfinishedSession),
            PersistedIdCharacters)>>}

ServerCall(op, sessionId, value, ok, error) ==
    [op |-> op, sessionId |-> sessionId, value |-> value,
     ok |-> ok, error |-> error]

\* the server when the constructor returns: initializeStorage has run up to
\* its await of fs.mkdir; dir says whether the directory .speccraft exists,
\* idCharacters how many characters each session id has
NewServer(file, dir) ==
    [sessions |-> NoSessions,
     idCharacters |-> PersistedIdCharacters,
     file |-> file,
     dir |-> dir,
     init |-> "mkdir",
     data |-> NoFile,
     created |-> 0,
     issued |-> 0,
     pending |-> <<>>,
     specs |-> NoSpecs,
     last |-> ServerCall("constructor", "", Undefined, TRUE, "")]

\* initializeStorage and the loadSessions it awaits, one await at a time:
\* fs.mkdir makes the directory; fs.readFile reads what the file holds
\* then; the continuation assigns this.sessions, to {} when the read
\* failed or JSON.parse threw
initializeStorage(srv) ==
    CASE srv.init = "mkdir" -> [srv EXCEPT !.init = "read", !.dir = TRUE]
      [] srv.init = "read" -> [srv EXCEPT !.init = "parse", !.data = srv.file]
      [] srv.init = "parse" ->
             [srv EXCEPT !.init = "done",
                         !.data = NoFile,
                         !.sessions =
                             IF srv.data # NoFile /\ srv.data[1].valid
                             THEN parse(srv.data[1].data)
                             ELSE NoSessions]
      [] OTHER -> srv

\* saveSessions up to its await: the text is built from this.sessions now,
\* and fs.writeFile has yet to open the file
saveSessions(srv) ==
    [srv EXCEPT !.pending =
         Append(@, [text |-> Text(srv.sessions, srv.idCharacters),
                    opened |-> FALSE])]

\* the next step of the k-th fs.writeFile of saveSessions. It opens the
\* file: without the directory the open fails, saveSessions catches the
\* error and no file is made; with it the file is made or truncated. Then
\* it writes its text from the start of the file: what another write put
\* there since and reaches past the text stays behind it
writeFile(srv, k) ==
    LET write == srv.pending[k]
        others == SubSeq(srv.pending, 1, k - 1)
                      \o SubSeq(srv.pending, k + 1, Len(srv.pending))
    IN  CASE ~write.opened /\ ~srv.dir -> [srv EXCEPT !.pending = others]
          [] ~write.opened ->
                 [srv EXCEPT !.file = <<Invalid(0)>>,
                             !.pending[k].opened = TRUE]
          [] OTHER ->
                 [srv EXCEPT !.file =
                                 IF write.text.length >= srv.file[1].length
                                 THEN <<write.text>>
                                 ELSE <<Invalid(srv.file[1].length)>>,
                             !.pending = others]

\* the outcome of a handler: the promise is rejected with the error, or
\* fulfilled
Rejected(srv, op, sessionId, value, error) ==
    [srv EXCEPT !.issued = @ + 1,
                !.last = ServerCall(op, sessionId, value, FALSE, error)]

Fulfilled(srv, op, sessionId, value) ==
    [srv EXCEPT !.issued = @ + 1,
                !.last = ServerCall(op, sessionId, value, TRUE, "")]

\* this.sessions[sessionId] on a plain object: an own property, a property
\* of Object.prototype, or undefined
lookup(srv, sessionId) ==
    CASE sessionId \in DOMAIN srv.sessions -> "session"
      [] sessionId \in ObjectPrototypeKeys -> "inherited"
      [] OTHER -> "undefined"

\* the error of a handler that finds no session; with an inherited property
\* the check passes and the engine built from it reads the responses of
\* undefined
NotFound == "Session not found"
TypeError == "Cannot read properties of undefined"

\* createNewSpecification when generateId gives an id of n characters
createNewSpecification(srv, n) ==
    LET id == NewIds[srv.created + 1]
        engine == NewEngine(id, srv.issued + 1)
        stored == [srv EXCEPT !.sessions = Put(@, id, getSession(engine)),
                              !.idCharacters = Put(@, id, n),
                              !.created = @ + 1]
    IN  Fulfilled(saveSessions(stored), "createNewSpecification", id,
                  Undefined)

continueSpecification(srv, sessionId) ==
    CASE lookup(srv, sessionId) = "undefined" ->
             Rejected(srv, "continueSpecification", sessionId, Undefined,
                      NotFound)
      [] lookup(srv, sessionId) = "inherited" ->
             Rejected(srv, "continueSpecification", sessionId, Undefined,
                      TypeError)
      [] OTHER -> Fulfilled(srv, "continueSpecification", sessionId, Undefined)

answerQuestion(srv, sessionId, answer) ==
    CASE lookup(srv, sessionId) = "undefined" ->
             Rejected(srv, "answerQuestion", sessionId, answer, NotFound)
      [] lookup(srv, sessionId) = "inherited" ->
             Rejected(srv, "answerQuestion", sessionId, answer, TypeError)
      [] OTHER ->
             LET engine == fromSession(srv.sessions[sessionId])
                 r == answerCurrentQuestion(engine, answer, srv.issued + 1)
             IN  IF ~r.ok
                 THEN Rejected(srv, "answerQuestion", sessionId, answer,
                               r.error)
                 ELSE Fulfilled(
                          saveSessions(
                              [srv EXCEPT !.sessions =
                                   Put(@, sessionId, getSession(r.engine))]),
                          "answerQuestion", sessionId, answer)

\* generateSpecification of the server, up to its first await: the
\* directories and the file are made when the awaits complete
generateSpecificationCall(srv, sessionId) ==
    CASE lookup(srv, sessionId) = "undefined" ->
             Rejected(srv, "generateSpecification", sessionId, Undefined,
                      NotFound)
      [] lookup(srv, sessionId) = "inherited" ->
             Rejected(srv, "generateSpecification", sessionId, Undefined,
                      TypeError)
      [] OTHER ->
             LET r == generateSpecification(srv.sessions[sessionId])
             IN  IF ~r.ok
                 THEN Rejected(srv, "generateSpecification", sessionId,
                               Undefined, r.error)
                 ELSE Fulfilled(
                          [srv EXCEPT !.specs = startGeneration(@)],
                          "generateSpecification", sessionId, Undefined)

\* an await of the k-th generateSpecification in flight completes
writeSpecification(srv, k) ==
    [srv EXCEPT !.specs = resumeGeneration(@, k)]

getSessionStatus(srv, sessionId) ==
    CASE lookup(srv, sessionId) = "undefined" ->
             Rejected(srv, "getSessionStatus", sessionId, Undefined, NotFound)
      [] lookup(srv, sessionId) = "inherited" ->
             Rejected(srv, "getSessionStatus", sessionId, Undefined, TypeError)
      [] OTHER -> Fulfilled(srv, "getSessionStatus", sessionId, Undefined)

generateFollowUpQuestions(srv, sessionId) ==
    CASE lookup(srv, sessionId) = "undefined" ->
             Rejected(srv, "generateFollowUpQuestions", sessionId, Undefined,
                      NotFound)
      [] lookup(srv, sessionId) = "inherited" ->
             Rejected(srv, "generateFollowUpQuestions", sessionId, Undefined,
                      TypeError)
      [] Len(srv.sessions[sessionId].responses) = 0 ->
             Rejected(srv, "generateFollowUpQuestions", sessionId, Undefined,
                      "No responses yet")
      [] OTHER ->
             Fulfilled(srv, "generateFollowUpQuestions", sessionId, Undefined)

-----------------------------------------------------------------------------
(* markdown-generator.ts. A string is the sequence of its characters; the  *)
(* fixed texts of the templates are written as words, each one element,    *)
(* with the white space and the punctuation between them as characters of  *)
(* their own, so that trim, split and the bullet pattern see them as they  *)
(* are.                                                                    *)

\* the characters of the strings given as answers and titles; a string
\* that is not listed is a single word
Chars(str) ==
    CASE str = "Admin, Guest" ->
             <<"A", "d", "m", "i", "n", ",", " ", "G", "u", "e", "s",
             "t">>
      [] str = "create posts, delete posts" ->
             <<"c", "r", "e", "a", "t", "e", " ", "p", "o", "s", "t",
             "s", ",", " ", "d", "e", "l", "e", "t", "e", " ", "p", "o",
             "s", "t", "s">>
      [] str = "- a\n* B" ->
             <<"-", " ", "a", "\n", "*", " ", "B">>
      [] str = "v\n- w" ->
             <<"v", "\n", "-", " ", "w">>
      [] str = "a, b" ->
             <<"a", ",", " ", "b">>
      [] str = "" -> <<>>
      [] OTHER -> <<str>>

\* \s of the regular expressions and of String.prototype.trim
IsSpace(c) == c \in {" ", "\n", "\t"}

UpperCaseLetters == <<"A", "B", "C", "D", "E", "F", "G", "H", "I", "J", "K",
                      "L", "M", "N", "O", "P", "Q", "R", "S", "T", "U", "V",
                      "W", "X", "Y", "Z">>
LowerCaseLetters == <<"a", "b", "c", "d", "e", "f", "g", "h", "i", "j", "k",
                      "l", "m", "n", "o", "p", "q", "r", "s", "t", "u", "v",
                      "w", "x", "y", "z">>

\* String.prototype.toLowerCase
toLowerCase(s) ==
    [i \in 1..Len(s) |->
        IF \E k \in 1..Len(UpperCaseLetters) : UpperCaseLetters[k] = s[i]
        THEN LowerCaseLetters[CHOOSE k \in 1..Len(UpperCaseLetters) :
                                  UpperCaseLetters[k] = s[i]]
        ELSE s[i]]

\* String.prototype.trim
trim(s) ==
    LET inked == {i \in 1..Len(s) : ~IsSpace(s[i])}
    IN  IF inked = {}
        THEN <<>>
        ELSE SubSeq(s, CHOOSE i \in inked : \A j \in inked : i <= j,
                       CHOOSE i \in inked : \A j \in inked : j <= i)

\* String.prototype.split on a set of one-character separators
RECURSIVE split(_, _)
split(s, separators) ==
    LET at == FindIndex([i \in 1..Len(s) |-> s[i] \in separators])
    IN  IF at = -1
        THEN <<s>>
        ELSE <<SubSeq(s, 1, at)>>
                 \o split(SubSeq(s, at + 2, Len(s)), separators)

\* Array.prototype.join
RECURSIVE join(_, _)
join(items, separator) ==
    IF Len(items) = 0 THEN <<>>
    ELSE IF Len(items) = 1 THEN items[1]
    ELSE items[1] \o separator \o join(Tail(items), separator)

\* the characters of the class [-â€¢*] of parseListItems
BulletChars == {"-", "â", "€", "¢", "*"}

\* item.replace(/^[-â€¢*]\s*/, "")
removeBullet(item) ==
    IF Len(item) > 0 /\ item[1] \in BulletChars
    THEN LET rest == Tail(item)
             at == FindIndex([i \in 1..Len(rest) |-> ~IsSpace(rest[i])])
         IN  IF at = -1 THEN <<>> ELSE SubSeq(rest, at + 1, Len(rest))
    ELSE item

\* String(value) and value.join(", ") of getResponseValue
stringOf(value) ==
    CASE value.kind = "string" -> Chars(value.str)
      [] value.kind = "boolean" ->
             IF value.bool THEN <<"true">> ELSE <<"false">>
      [] value.kind = "array" ->
             join([i \in 1..Len(value.items) |-> Chars(value.items[i])],
                  <<",", " ">>)
      [] OTHER -> <<"undefined">>

\* the Map of the constructor holds, for an id, the last response with it
getResponseValue(responses, questionId) ==
    LET at == {i \in 1..Len(responses) : responses[i].questionId = questionId}
    IN  IF at = {}
        THEN <<>>
        ELSE stringOf(responses[CHOOSE i \in at : \A j \in at : j <= i].value)

\* faulty variant: the header is written whatever the content
formatSectionAlways(title, content) ==
    <<"##", " ", title, "\n", "\n">> \o trim(content) \o <<"\n", "\n">>

formatSection(title, content) ==
    IF trim(content) = <<>>
    THEN <<>>
    ELSE <<"##", " ", title, "\n", "\n">> \o trim(content) \o <<"\n", "\n">>

parseListItems(content) ==
    IF content = <<>>
    THEN <<>>
    ELSE LET parts == split(content, {",", "\n"})
             trimmed == [i \in 1..Len(parts) |-> trim(parts[i])]
             kept == SelectSeq(trimmed, LAMBDA item : Len(item) > 0)
         IN  [i \in 1..Len(kept) |-> removeBullet(kept[i])]

\* items.map(item => `- ${item}`).join("\n")
bullets(items) ==
    join([i \in 1..Len(items) |-> <<"-", " ">> \o items[i]], <<"\n">>)

\* businessValue || "I can achieve my goals"
goal(businessValue) ==
    IF businessValue # <<>> THEN businessValue
    ELSE <<"I can achieve my goals">>

\* `As a ${userType.toLowerCase()}, I want ${func.toLowerCase()} so that
\* ${businessValue || "I can achieve my goals"}.`
story(userType, func, businessValue) ==
    <<"As a", " ">> \o toLowerCase(userType) \o <<",", " ", "I want", " ">>
        \o toLowerCase(func) \o <<" ", "so that", " ">>
        \o goal(businessValue) \o <<".">>

\* the concatenation of the lists of a list
RECURSIVE flatten(_)
flatten(lists) ==
    IF Len(lists) = 0 THEN <<>> ELSE lists[1] \o flatten(Tail(lists))

\* faulty variant: the k-th user type is paired with the k-th function
formatUserStoriesPairwise(responses) ==
    LET targetUsers == getResponseValue(responses, "target-users")
        coreFunction == getResponseValue(responses, "core-functionality")
        businessValue == getResponseValue(responses, "business-value")
        userTypes == parseListItems(targetUsers)
        functions == parseListItems(coreFunction)
        paired == IF targetUsers # <<>> /\ coreFunction # <<>>
                  THEN [k \in 1..Min(Len(userTypes), Len(functions)) |->
                           story(userTypes[k], functions[k],
                                 businessValue)]
                  ELSE <<>>
        stories == IF Len(paired) = 0 /\ coreFunction # <<>>
                   THEN [j \in 1..Len(functions) |->
                            story(<<"user">>, functions[j], businessValue)]
                   ELSE paired
    IN  IF targetUsers = <<>> /\ coreFunction = <<>>
        THEN <<>>
        ELSE bullets(stories)

formatUserStories(responses) ==
    LET targetUsers == getResponseValue(responses, "target-users")
        coreFunction == getResponseValue(responses, "core-functionality")
        businessValue == getResponseValue(responses, "business-value")
        userTypes == parseListItems(targetUsers)
        functions == parseListItems(coreFunction)
        combined == IF targetUsers # <<>> /\ coreFunction # <<>>
                    THEN flatten([i \in 1..Len(userTypes) |->
                             [j \in 1..Len(functions) |->
                                 story(userTypes[i], functions[j], businessValue)]])
                    ELSE <<>>
        stories == IF Len(combined) = 0 /\ coreFunction # <<>>
                   THEN [j \in 1..Len(functions) |->
                            story(<<"user">>, functions[j], businessValue)]
                   ELSE combined
    IN  IF targetUsers = <<>> /\ coreFunction = <<>>
        THEN <<>>
        ELSE bullets(stories)

\* a list with the item when the answer is given, the empty list otherwise
labelled(label, answer) ==
    IF answer # <<>> THEN <<(<<label, " ">> \o answer)>> ELSE <<>>

formatFunctionalRequirements(responses) ==
    LET coreFunction == getResponseValue(responses, "core-functionality")
        userInteractions == getResponseValue(responses, "user-interactions")
        dataRequirements == getResponseValue(responses, "data-requirements")
        integrations == getResponseValue(responses, "integrations-needed")
        functions == parseListItems(coreFunction)
    IN  bullets([i \in 1..Len(functions) |->
                    <<"The system must", " ">> \o toLowerCase(functions[i])]
                \o labelled("User interaction flow:", userInteractions)
                \o labelled("Data requirements:", dataRequirements)
                \o labelled("External integrations:", integrations))

formatEdgeCases(responses) ==
    LET errorScenarios == getResponseValue(responses, "error-scenarios")
        edgeCasesList == getResponseValue(responses, "edge-cases")
        validationRules == getResponseValue(responses, "validation-rules")
        errors == parseListItems(errorScenarios)
    IN  bullets([i \in 1..Len(errors) |->
                    <<"Error handling:", " ">> \o errors[i]]
                \o parseListItems(edgeCasesList)
                \o labelled("Input validation:", validationRules))

formatUiUxRequirements(responses) ==
    LET uiRequirements == getResponseValue(responses, "ui-requirements")
        responsiveDesign == getResponseValue(responses, "responsive-design")
        accessibility ==
            getResponseValue(responses, "accessibility-requirements")
    IN  join((IF uiRequirements # <<>> THEN <<uiRequirements>> ELSE <<>>)
             \o (IF responsiveDesign = <<"true">>
                 THEN << <<"Must be responsive and work on mobile devices">> >>
                 ELSE <<>>)
             \o labelled("Accessibility requirements:", accessibility),
             <<"\n", "\n">>)

formatTechnicalConstraints(responses) ==
    LET performance == getResponseValue(responses, "performance-requirements")
        scalability == getResponseValue(responses, "scalability-needs")
        authentication ==
            getResponseValue(responses, "authentication-required")
        securityReqs == getResponseValue(responses, "security-requirements")
    IN  bullets(labelled("Performance:", performance)
                \o labelled("Scalability:", scalability)
                \o (IF authentication # <<"No authentication needed">>
                    THEN labelled("Authentication:", authentication)
                    ELSE <<>>)
                \o labelled("Security:", securityReqs))

formatAcceptanceCriteria(responses) ==
    LET successCriteria == getResponseValue(responses, "success-criteria")
        coreFunction == getResponseValue(responses, "core-functionality")
        success == parseListItems(successCriteria)
        functions == parseListItems(coreFunction)
    IN  bullets([i \in 1..Len(success) |->
                    <<"Success measure:", " ">> \o success[i]]
                \o [i \in 1..Len(functions) |->
                       <<"Feature must successfully", " ">>
                           \o toLowerCase(functions[i])]
                \o << <<"All user stories must be implemented and tested">>,
                      <<"Feature must pass all security and performance requirements">>,
                      <<"User interface must be responsive and accessible">> >>)

formatDependencies(responses) ==
    LET featureDeps == getResponseValue(responses, "feature-dependencies")
        integrations == getResponseValue(responses, "integrations-needed")
        timeline == getResponseValue(responses, "timeline-constraints")
    IN  bullets(labelled("Feature dependencies:", featureDeps)
                \o labelled("External service dependencies:", integrations)
                \o labelled("Timeline constraints:", timeline))

\* new Date().toISOString().split("T")[0]
today == "2026-10-30"

\* faulty variant: the dependencies are written before the overview
generateMarkdownDependenciesFirst(responses, featureTitle) ==
    <<"#", " ", "Feature:", " ">> \o Chars(featureTitle) \o <<"\n", "\n">>
        \o formatSection("Dependencies", formatDependencies(responses))
        \o formatSection("Overview",
                         getResponseValue(responses, "feature-overview"))
        \o formatSection("User Stories", formatUserStories(responses))
        \o formatSection("Functional Requirements",
                         formatFunctionalRequirements(responses))
        \o formatSection("Edge Cases", formatEdgeCases(responses))
        \o formatSection("UI/UX Requirements",
                         formatUiUxRequirements(responses))
        \o formatSection("Technical Constraints",
                         formatTechnicalConstraints(responses))
        \o formatSection("Acceptance Criteria",
                         formatAcceptanceCriteria(responses))
        \o <<"---", "\n", "\n">>
        \o <<"*", "Generated by SpecCraft on", " ", today, "*", "\n">>

generateMarkdown(responses, featureTitle) ==
    <<"#", " ", "Feature:", " ">> \o Chars(featureTitle) \o <<"\n", "\n">>
        \o formatSection("Overview",
                         getResponseValue(responses, "feature-overview"))
        \o formatSection("User Stories", formatUserStories(responses))
        \o formatSection("Functional Requirements",
                         formatFunctionalRequirements(responses))
        \o formatSection("Edge Cases", formatEdgeCases(responses))
        \o formatSection("UI/UX Requirements",
                         formatUiUxRequirements(responses))
        \o formatSection("Technical Constraints",
                         formatTechnicalConstraints(responses))
        \o formatSection("Acceptance Criteria",
                         formatAcceptanceCriteria(responses))
        \o formatSection("Dependencies", formatDependencies(responses))
        \o <<"---", "\n", "\n">>
        \o <<"*", "Generated by SpecCraft on", " ", today, "*", "\n">>

\* text.split("\n").filter(s => s.trim())
lines(content) ==
    SelectSeq(split(content, {"\n"}), LAMBDA s : trim(s) # <<>>)

generateSpecificationTemplate(responses) ==
    [overview |-> getResponseValue(responses, "feature-overview"),
     userStories |-> lines(formatUserStories(responses)),
     functionalRequirements |-> lines(formatFunctionalRequirements(responses)),
     edgeCases |-> lines(formatEdgeCases(responses)),
     uiUxRequirements |->
         SelectSeq(<<formatUiUxRequirements(responses)>>,
                   LAMBDA s : trim(s) # <<>>),
     technicalConstraints |-> lines(formatTechnicalConstraints(responses)),
     acceptanceCriteria |-> lines(formatAcceptanceCriteria(responses)),
     dependencies |-> lines(formatDependencies(responses))]

\* a MarkdownGenerator built from the responses, and what it has produced
NoTemplate == generateSpecificationTemplate(<<>>)
NewGenerator(responses, featureTitle) ==
    [responses |-> responses, featureTitle |-> featureTitle,
     markdown |-> <<>>, template |-> NoTemplate, templated |-> FALSE]

-----------------------------------------------------------------------------
(* Inputs.                                                                 *)

SessionId == "questionnaire_1"

\* values a caller passes to answerCurrentQuestion
Values == {Str(""), Str("a"), Bool(TRUE), Bool(FALSE),
           Arr(<<>>), Arr(<<"a">>), Undefined}

\* follow-up questions a caller passes to addDynamicQuestion
DynamicQuestions == {
    Question("follow-up-first", "boolean", FALSE,
             Rule("success-criteria", Str("a")), 0),
    Question("follow-up-tie", "multiselect", TRUE, NoRule, 40),
    Question("follow-up-security", "text", TRUE,
             Rule("sensitive-data", Bool(TRUE)), 43),
    Question("follow-up-last", "text", FALSE, NoRule, 70) }

\* ids a caller passes to goToQuestion
QuestionIds == {"sensitive-data", "security-requirements", "success-criteria",
                "follow-up-tie", "no-such-question"}

Call(name, value, questionId, ok, ret) ==
    [name |-> name, value |-> value, questionId |-> questionId,
     ok |-> ok, ret |-> ret]

NoQuestion == ""

-----------------------------------------------------------------------------
(* The state machine.                                                      *)

Current == Engine(questions, session)

Init ==
    /\ questions = NewEngine(SessionId, 0).questions
    /\ session = NewEngine(SessionId, 0).session
    /\ now = 0
    /\ lastOp = Call("create", Undefined, NoQuestion, TRUE, TRUE)
    /\ before = NewEngine(SessionId, 0)
    /\ specFiles = NoSpecs
    /\ server = NewServer(NoFile, FALSE)
    /\ generator = NewGenerator(<<>>, "")

Step(eng, call, files) ==
    /\ now' = now + 1
    /\ questions' = eng.questions
    /\ session' = eng.session
    /\ lastOp' = call
    /\ before' = Current
    /\ specFiles' = files
    /\ UNCHANGED <<server, generator>>

\* faulty variant: drops the responses of the questions the answer made
\* ineligible
AnswerCurrentQuestionPruning(value) ==
    LET r == answerCurrentQuestion(Current, value, now + 1)
        eligible == getAvailableQuestions(r.engine)
        pruned == SelectSeq(r.engine.session.responses,
                      LAMBDA response :
                          \E k \in 1..Len(eligible) :
                              eligible[k].id = response.questionId)
    IN  Step(Engine(r.engine.questions,
                    [r.engine.session EXCEPT !.responses = pruned]),
             Call("answerCurrentQuestion", value, NoQuestion, r.ok, r.ok),
             specFiles)

AnswerCurrentQuestion(value) ==
    LET r == answerCurrentQuestion(Current, value, now + 1)
    IN  Step(r.engine,
             Call("answerCurrentQuestion", value, NoQuestion, r.ok, r.ok),
             specFiles)

GoToPreviousQuestion ==
    LET r == goToPreviousQuestion(Current, now + 1)
    IN  Step(r.engine,
             Call("goToPreviousQuestion", Undefined, NoQuestion, TRUE, r.ret),
             specFiles)

GoToQuestion(questionId) ==
    LET r == goToQuestion(Current, questionId, now + 1)
    IN  Step(r.engine,
             Call("goToQuestion", Undefined, questionId, TRUE, r.ret),
             specFiles)

\* faulty variant: clears the completion flag, as the navigation methods do
AddDynamicQuestionReopening(question) ==
    LET added == addDynamicQuestion(Current, question, now + 1)
    IN  Step(Engine(added.questions,
                    [added.session EXCEPT !.isComplete = FALSE]),
             Call("addDynamicQuestion", Undefined, question.id, TRUE, TRUE),
             specFiles)

AddDynamicQuestion(question) ==
    Step(addDynamicQuestion(Current, question, now + 1),
         Call("addDynamicQuestion", Undefined, question.id, TRUE, TRUE),
         specFiles)

GenerateSpecification ==
    LET r == generateSpecification(session)
    IN  Step(Current,
             Call("generateSpecification", Undefined, NoQuestion, r.ok, r.ok),
             IF r.writes THEN startGeneration(specFiles) ELSE specFiles)

\* an await of a generateSpecification in flight completes
ResumeGeneration ==
    /\ \E k \in 1..Len(specFiles.generating) :
           specFiles' = resumeGeneration(specFiles, k)
    /\ UNCHANGED <<questions, session, now, lastOp, before, server,
                   generator>>

Answer ==
    /\ now < MaxSteps
    /\ \E value \in Values : AnswerCurrentQuestion(value)

Previous ==
    /\ now < MaxSteps
    /\ GoToPreviousQuestion

GoTo ==
    /\ now < MaxSteps
    /\ \E questionId \in QuestionIds : GoToQuestion(questionId)

AddDynamic ==
    /\ now < MaxSteps
    /\ Len(questions) < Len(baseQuestions) + MaxDyn
    /\ \E question \in DynamicQuestions : AddDynamicQuestion(question)

Generate ==
    /\ now < MaxSteps
    /\ GenerateSpecification

Next ==
    \/ Answer
    \/ Previous
    \/ GoTo
    \/ AddDynamic
    \/ Generate
    \/ ResumeGeneration

Spec == Init /\ [][Next]_vars

-----------------------------------------------------------------------------
(* A long session: the caller answers the questions in turn, text          *)
(* questions with a text and boolean questions with true, false or "true", *)
(* and goes back to sensitive-data once the session is complete.           *)

LongValues(question) ==
    IF question.type = "boolean"
    THEN {Bool(TRUE), Bool(FALSE), Str("true")}
    ELSE {Str("a")}

LongAnswer ==
    /\ now < MaxLongSteps
    /\ getCurrentQuestion(Current) # <<>>
    /\ \E value \in LongValues(getCurrentQuestion(Current)[1]) :
           AnswerCurrentQuestion(value)

LongRevise ==
    /\ now < MaxLongSteps
    /\ isComplete(Current)
    /\ GoToQuestion("sensitive-data")

NextLong ==
    \/ LongAnswer
    \/ LongRevise

SpecLong == Init /\ [][NextLong]_vars

-----------------------------------------------------------------------------
(* The long questionnaire with one follow-up question: as SpecLong, and    *)
(* the caller adds one dynamic question at some point.                     *)

LongFollowUp ==
    /\ now < MaxLongSteps
    /\ Len(questions) = Len(baseQuestions)
    /\ \E question \in DynamicQuestions : AddDynamicQuestion(question)

NextFollowUp ==
    \/ LongAnswer
    \/ LongRevise
    \/ LongFollowUp

SpecFollowUp == Init /\ [][NextFollowUp]_vars

-----------------------------------------------------------------------------
(* The server's state machine: calls arrive at any time, also before       *)
(* initializeStorage has finished, and the awaited file operations         *)
(* complete in any order.                                                  *)

InitServer ==
    /\ questions = NewEngine(SessionId, 0).questions
    /\ session = NewEngine(SessionId, 0).session
    /\ now = 0
    /\ lastOp = Call("create", Undefined, NoQuestion, TRUE, TRUE)
    /\ before = NewEngine(SessionId, 0)
    /\ specFiles = NoSpecs
    /\ \E file \in PersistedFiles, dir \in BOOLEAN :
           /\ file # NoFile => dir
           /\ server = NewServer(file, dir)
    /\ generator = NewGenerator(<<>>, "")

ServerStep(srv) ==
    /\ server' = srv
    /\ UNCHANGED <<questions, session, now, lastOp, before, specFiles,
                   generator>>

InitializeStorage ==
    /\ server.init # "done"
    /\ ServerStep(initializeStorage(server))

WriteFile ==
    \E k \in 1..Len(server.pending) : ServerStep(writeFile(server, k))

WriteSpecification ==
    \E k \in 1..Len(server.specs.generating) :
        ServerStep(writeSpecification(server, k))

CreateNewSpecification ==
    /\ server.issued < MaxCalls
    /\ server.created < Len(NewIds)
    /\ \E n \in NewIdCharacters :
           ServerStep(createNewSpecification(server, n))

ContinueSpecification ==
    /\ server.issued < MaxCalls
    /\ \E sessionId \in CallIds :
           ServerStep(continueSpecification(server, sessionId))

AnswerQuestion ==
    /\ server.issued < MaxCalls
    /\ \E sessionId \in CallIds, answer \in AnswerValues :
           ServerStep(answerQuestion(server, sessionId, answer))

GenerateSpecificationCall ==
    /\ server.issued < MaxCalls
    /\ \E sessionId \in CallIds :
           ServerStep(generateSpecificationCall(server, sessionId))

GetSessionStatus ==
    /\ server.issued < MaxCalls
    /\ \E sessionId \in CallIds :
           ServerStep(getSessionStatus(server, sessionId))

GenerateFollowUpQuestions ==
    /\ server.issued < MaxCalls
    /\ \E sessionId \in CallIds :
           ServerStep(generateFollowUpQuestions(server, sessionId))

NextServer ==
    \/ InitializeStorage
    \/ WriteFile
    \/ WriteSpecification
    \/ CreateNewSpecification
    \/ ContinueSpecification
    \/ AnswerQuestion
    \/ GenerateSpecificationCall
    \/ GetSessionStatus
    \/ GenerateFollowUpQuestions

SpecServer == InitServer /\ [][NextServer]_vars

-----------------------------------------------------------------------------
(* The generator's state machine: a MarkdownGenerator is built from the    *)
(* responses of a session, and its two public methods are called.          *)

MaxAnswered == 2

\* the title of the feature
FeatureTitles == {"Blog"}

\* the answers given to a question
GeneratorValues(questionId) ==
    CASE questionId = "target-users" ->
             {Str("Admin, Guest"), Str(","), Str("")}
      [] questionId = "core-functionality" ->
             {Str("create posts, delete posts"), Str("- a\n* B"), Str("")}
      [] questionId = "business-value" -> {Str("v\n- w"), Str("")}
      [] questionId = "error-scenarios" -> {Str(""), Str(" "), Str("-")}
      [] questionId = "edge-cases" -> {Str(""), Str(" "), Str("a, b")}
      [] questionId = "validation-rules" -> {Str(""), Str(" ")}
      [] questionId = "feature-overview" -> {Str(""), Str(" ")}
      [] questionId = "responsive-design" -> {Bool(TRUE), Bool(FALSE)}
      [] questionId = "authentication-required" ->
             {Str("No authentication needed"), Arr(<<"a", "b">>)}
      [] questionId = "ui-requirements" -> {Str("a"), Str("")}
      [] questionId = "accessibility-requirements" -> {Str("a"), Str("")}
      [] OTHER -> {Str("")}

AllGeneratorValues ==
    UNION {GeneratorValues(baseQuestions[i].id) : i \in 1..Len(baseQuestions)}

BaseIds == {baseQuestions[i].id : i \in 1..Len(baseQuestions)}

\* the responses of a session: no question or every question answered "a",
\* and the answers of at most MaxAnswered questions replaced by the given
\* ones
ResponsesOf(full, given) ==
    LET answered == SelectSeq(sortedBaseQuestions,
                        LAMBDA q : full \/ q.id \in DOMAIN given)
    IN  [i \in 1..Len(answered) |->
            Response(answered[i].id,
                     IF answered[i].id \in DOMAIN given
                     THEN given[answered[i].id]
                     ELSE Str("a"),
                     i)]

\* the sets of at most n question ids
RECURSIVE IdSets(_)
IdSets(n) ==
    IF n = 0
    THEN {{}}
    ELSE LET smaller == IdSets(n - 1)
         IN  smaller \cup {s \cup {id} : s \in smaller, id \in BaseIds}

\* the answers given to the questions of a set
GivenAnswers(ids) ==
    {given \in [ids -> AllGeneratorValues] :
         \A id \in ids : given[id] \in GeneratorValues(id)}

InitGenerator ==
    /\ questions = NewEngine(SessionId, 0).questions
    /\ session = NewEngine(SessionId, 0).session
    /\ now = 0
    /\ lastOp = Call("create", Undefined, NoQuestion, TRUE, TRUE)
    /\ before = NewEngine(SessionId, 0)
    /\ specFiles = NoSpecs
    /\ server = NewServer(NoFile, FALSE)
    /\ \E full \in BOOLEAN, ids \in IdSets(MaxAnswered),
          featureTitle \in FeatureTitles :
           \E given \in GivenAnswers(ids) :
               generator = NewGenerator(ResponsesOf(full, given), featureTitle)

GenerateMarkdown ==
    /\ generator.markdown = <<>>
    /\ generator' =
           [generator EXCEPT
               !.markdown = generateMarkdown(generator.responses,
                                             generator.featureTitle)]
    /\ UNCHANGED <<questions, session, now, lastOp, before, specFiles, server>>

GenerateSpecificationTemplate ==
    /\ ~generator.templated
    /\ generator' =
           [generator EXCEPT
               !.template = generateSpecificationTemplate(generator.responses),
               !.templated = TRUE]
    /\ UNCHANGED <<questions, session, now, lastOp, before, specFiles, server>>

NextGenerator ==
    \/ GenerateMarkdown
    \/ GenerateSpecificationTemplate

SpecGenerator == InitGenerator /\ [][NextGenerator]_vars

-----------------------------------------------------------------------------
(* Vocabulary of the properties.                                           *)

ResponseIndexes(s) == 1..Len(s.responses)

AnsweredIds(s) == {s.responses[i].questionId : i \in ResponseIndexes(s)}

AnswerCount(s, id) ==
    Cardinality({i \in ResponseIndexes(s) : s.responses[i].questionId = id})

HasAnswer(s, id, value) ==
    \E i \in ResponseIndexes(s) :
        s.responses[i].questionId = id /\ s.responses[i].value = value

AvailableIds(eng) ==
    {getAvailableQuestions(eng)[i].id : i \in 1..Len(getAvailableQuestions(eng))}

AnswerSucceeded == lastOp.name = "answerCurrentQuestion" /\ lastOp.ok
AnswerFailed == lastOp.name = "answerCurrentQuestion" /\ ~lastOp.ok

\* the question the last call found current
AskedBefore == getCurrentQuestion(before)

-----------------------------------------------------------------------------
\* C1: the responses hold at most one response per question id, and a
\* successful answer leaves exactly one response for the question answered,
\* carrying the value just given.
C1_OneAnswerPerQuestion ==
    /\ \A id \in AnsweredIds(session) : AnswerCount(session, id) = 1
    /\ AnswerSucceeded =>
           /\ AnswerCount(session, AskedBefore[1].id) = 1
           /\ HasAnswer(session, AskedBefore[1].id, lastOp.value)

\* a question answered before is answered again with another value
C1_Witness ==
    /\ AnswerSucceeded
    /\ AskedBefore[1].id \in AnsweredIds(before.session)
    /\ ~HasAnswer(before.session, AskedBefore[1].id, lastOp.value)

\* C2: isComplete() is true exactly when the cursor is at or past the end
\* of the eligible sequence computed from the current catalog and answers.
C2_CompleteIffCursorPastEnd ==
    isComplete(Current) <=>
        session.currentQuestionIndex >= Len(getAvailableQuestions(Current))

\* C3: generate fails whenever an eligible required question of the
\* session has no response.
C3_GenerateNeedsRequiredAnswers ==
    (/\ lastOp.name = "generateSpecification"
     /\ getUnansweredRequiredQuestions(fromSession(session)) # <<>>)
        => ~lastOp.ok

EmptyValues == {Str(""), Arr(<<>>), Undefined}

\* C4: on a required boolean question an answer is rejected only when the
\* value is an empty string, an empty list or absent; false is accepted,
\* recorded and advances the cursor.
C4_FalseAnswersRequiredBoolean ==
    (/\ lastOp.name = "answerCurrentQuestion"
     /\ AskedBefore # <<>>
     /\ AskedBefore[1].required
     /\ AskedBefore[1].type = "boolean")
        => /\ ~lastOp.ok => lastOp.value \in EmptyValues
           /\ lastOp.value = Bool(FALSE) =>
                  /\ lastOp.ok
                  /\ HasAnswer(session, AskedBefore[1].id, Bool(FALSE))
                  /\ session.currentQuestionIndex =
                         before.session.currentQuestionIndex + 1

\* C5: a failed answerCurrentQuestion leaves the engine as it was (cursor,
\* responses, completion flag, updatedAt); a successful one has recorded the
\* response and advanced the cursor by one.
C5_FailedAnswerChangesNothing ==
    /\ AnswerFailed => Current = before
    /\ AnswerSucceeded =>
           /\ HasAnswer(session, AskedBefore[1].id, lastOp.value)
           /\ session.currentQuestionIndex =
                  before.session.currentQuestionIndex + 1
           /\ session.updatedAt = now

\* an empty value is refused on a required question of a session that has
\* responses already
C5_Witness ==
    /\ AnswerFailed
    /\ AskedBefore # <<>>
    /\ lastOp.value \in EmptyValues
    /\ before.session.responses # <<>>
    /\ before.session.updatedAt < now

\* C6: security-requirements is not eligible while sensitive-data has no
\* response, is eligible right after sensitive-data is answered true, and is
\* not eligible after sensitive-data, answered true before, is visited again
\* and answered false.
C6_DependencyFollowsSensitiveData ==
    /\ "sensitive-data" \notin AnsweredIds(session) =>
           "security-requirements" \notin AvailableIds(Current)
    /\ (/\ lastOp.name = "answerCurrentQuestion"
        /\ AskedBefore # <<>>
        /\ AskedBefore[1].id = "sensitive-data")
           => /\ lastOp.value = Bool(TRUE) =>
                     "security-requirements" \in AvailableIds(Current)
              /\ (/\ lastOp.value = Bool(FALSE)
                  /\ HasAnswer(before.session, "sensitive-data", Bool(TRUE)))
                     => "security-requirements" \notin AvailableIds(Current)

\* the answers as a map from question id to value; order and cursor are not
\* part of it
AnswerMap(s) ==
    [id \in AnsweredIds(s) |->
        s.responses[CHOOSE i \in ResponseIndexes(s) :
                        s.responses[i].questionId = id].value]

\* the eligible questions of a catalog under an answer map
EligibleUnder(qs, answers) ==
    SelectSeq(qs, LAMBDA q :
        \/ q.dependsOn = <<>>
        \/ /\ q.dependsOn[1].questionId \in DOMAIN answers
           /\ StrictEquals(answers[q.dependsOn[1].questionId],
                           q.dependsOn[1].value))

\* C7: the eligible questions are determined by the catalog and the answer
\* map alone: whatever the order of the responses and the cursor, they are
\* the questions eligible under the map.
C7_EligibleIsFunctionOfAnswerMap ==
    /\ \A id \in AnsweredIds(session) : AnswerCount(session, id) = 1
    /\ getAvailableQuestions(Current) = EligibleUnder(questions, AnswerMap(session))

\* sensitive-data is answered true and is not the latest response, and
\* security-requirements is eligible
C7_Witness ==
    /\ Len(session.responses) >= 2
    /\ session.responses[1].questionId = "sensitive-data"
    /\ session.responses[1].value = Bool(TRUE)
    /\ "security-requirements" \in AvailableIds(Current)

\* C8: getProgress() reports total = the number of eligible questions and
\* current = min(responses, total), so that 0 <= current <= total and
\* 0 <= percentage <= 100, the percentage being current / total rounded to
\* the nearest percent, and 0 for an engine without questions.
C8_ProgressWithinBounds ==
    LET p == getProgress(Current)
        eligible == Cardinality({i \in 1..Len(questions) :
                                    shouldAskQuestion(Current, questions[i])})
    IN  /\ p.total = eligible
        /\ p.current = IF Len(session.responses) < eligible
                       THEN Len(session.responses) ELSE eligible
        /\ 0 <= p.current /\ p.current <= p.total
        /\ 0 <= p.percentage /\ p.percentage <= 100
        /\ p.total > 0 =>
               /\ 2 * (p.percentage * p.total - 100 * p.current) <= p.total
               /\ 2 * (100 * p.current - p.percentage * p.total) <= p.total
        /\ getProgress(Engine(<<>>, session)).percentage = 0

\* more responses are recorded than questions are eligible
C8_Witness ==
    Len(session.responses) > Len(getAvailableQuestions(Current))

\* the shape of a value matches a question type
ShapeMatches(value, type) ==
    CASE type = "boolean" -> value.kind = "boolean"
      [] type = "multiselect" -> value.kind = "array"
      [] OTHER -> value.kind = "string"

\* C9: every recorded response has a value of the shape of the type of the
\* question it answers.
C9_AnswerShapeMatchesType ==
    \A i \in ResponseIndexes(session) :
        \A j \in 1..Len(questions) :
            questions[j].id = session.responses[i].questionId =>
                ShapeMatches(session.responses[i].value, questions[j].type)

\* C10: goToPreviousQuestion with the cursor above 0 moves it back by one,
\* clears the completion flag, keeps the responses and returns true; with the
\* cursor at 0 it returns false and changes nothing.
C10_PreviousQuestionFrame ==
    lastOp.name = "goToPreviousQuestion" =>
        IF before.session.currentQuestionIndex > 0
        THEN /\ lastOp.ret
             /\ session.currentQuestionIndex =
                    before.session.currentQuestionIndex - 1
             /\ ~session.isComplete
             /\ session.responses = before.session.responses
             /\ questions = before.questions
        ELSE /\ ~lastOp.ret
             /\ Current = before

\* goToPreviousQuestion is called on a complete session
C10_Witness ==
    /\ lastOp.name = "goToPreviousQuestion"
    /\ lastOp.ret
    /\ before.session.isComplete
    /\ before.session.responses # <<>>

\* C11: goToQuestion(id) with id in the eligible sequence sets the cursor to
\* the index of the question in that sequence, clears the completion flag,
\* keeps the responses and returns true; with an unknown id, or the id of a
\* catalog question that is not eligible, it returns false and changes
\* nothing.
C11_GoToQuestionFrame ==
    lastOp.name = "goToQuestion" =>
        LET eligible == getAvailableQuestions(before)
            at == {i \in 1..Len(eligible) : eligible[i].id = lastOp.questionId}
        IN  IF at # {}
            THEN /\ lastOp.ret
                 /\ session.currentQuestionIndex + 1 \in at
                 /\ \A i \in at : session.currentQuestionIndex + 1 <= i
                 /\ ~session.isComplete
                 /\ session.responses = before.session.responses
                 /\ questions = before.questions
            ELSE /\ ~lastOp.ret
                 /\ Current = before

\* goToQuestion is refused for security-requirements, which is in the
\* catalog and not eligible, on a session that is complete
C11_Witness ==
    /\ lastOp.name = "goToQuestion"
    /\ lastOp.questionId = "security-requirements"
    /\ ~lastOp.ret
    /\ before.session.isComplete

IsSortedByOrder(qs) ==
    \A i, j \in 1..Len(qs) : i < j => qs[i].order <= qs[j].order

\* the catalog without its element at position k
Without(qs, k) == SubSeq(qs, 1, k - 1) \o SubSeq(qs, k + 1, Len(qs))

\* C12: the catalog is sorted ascending by order in every state; an
\* addDynamicQuestion call puts the new question after every question of a
\* lower or equal order and before every question of a greater order, and
\* keeps the other questions as they were.
C12_CatalogStaysSorted ==
    /\ IsSortedByOrder(questions)
    /\ lastOp.name = "addDynamicQuestion" =>
           \E k \in 1..Len(questions) :
               /\ questions[k].id = lastOp.questionId
               /\ Without(questions, k) = before.questions
               /\ \A i \in 1..(k - 1) : questions[i].order <= questions[k].order
               /\ \A i \in (k + 1)..Len(questions) :
                      questions[i].order > questions[k].order

\* a second question is added, with the order of an existing question
C12_Witness ==
    /\ lastOp.name = "addDynamicQuestion"
    /\ lastOp.questionId = "follow-up-tie"
    /\ Len(before.questions) > Len(baseQuestions)

\* the eligible, required questions of the engine without a response, in
\* catalog order
EligibleRequiredUnanswered(eng) ==
    SelectSeq(EligibleUnder(eng.questions, AnswerMap(eng.session)),
              LAMBDA q : q.required /\ q.id \notin AnsweredIds(eng.session))

\* C13: getUnansweredRequiredQuestions() returns exactly the eligible
\* questions that are required and have no response, and
\* validateSpecificationCompleteness(session) is valid exactly when that
\* sequence is empty and lists one text per question of it.
C13_ValidIffNoRequiredUnanswered ==
    LET unanswered == getUnansweredRequiredQuestions(Current)
        validation == validateSpecificationCompleteness(getSession(Current))
    IN  /\ unanswered = EligibleRequiredUnanswered(Current)
        /\ validation.isValid <=> unanswered = <<>>
        /\ Len(validation.missingRequiredQuestions) = Len(unanswered)

\* p is 100 * current / total rounded to the nearest integer, halves up
IsRoundedPercentage(p, current, total) ==
    /\ 2 * total * p - total <= 200 * current
    /\ 200 * current < 2 * total * p + total

\* C14: a generate call on a session whose completion flag is false fails
\* with the not-complete error, which carries the percentage of the
\* session's responses among its eligible questions; no file is written and
\* the session stays as it was.
C14_GenerateOnIncompleteSession ==
    [][(/\ now' = now + 1
        /\ lastOp'.name = "generateSpecification"
        /\ ~session.isComplete)
          => LET r == generateSpecification(session)
                 total == Len(EligibleUnder(sortedBaseQuestions,
                                            AnswerMap(session)))
             IN  /\ ~lastOp'.ok
                 /\ r.error = "Session is not complete"
                 /\ IsRoundedPercentage(r.percentage,
                        Min(Len(session.responses), total), total)
                 /\ specFiles' = specFiles
                 /\ session' = session
                 /\ questions' = questions]_vars

\* generate has failed on a session that has responses
C14_Witness ==
    /\ lastOp.name = "generateSpecification"
    /\ ~lastOp.ok
    /\ ~session.isComplete
    /\ Len(session.responses) >= 2
    /\ specFiles = NoSpecs

\* the step is a call of the handler named op
IsCall(op) ==
    /\ server'.issued = server.issued + 1
    /\ server'.last.op = op

\* the handlers that take a session id and change no session when it is
\* unknown
SessionHandlers ==
    {"continueSpecification", "answerQuestion", "getSessionStatus",
     "generateSpecification", "generateFollowUpQuestions"}

\* C15: a continue, answer, status, generate or follow-up call with a
\* session id that is not in the session map fails with the not-found
\* error, and the session map, the sessions file and the writes in flight
\* stay as they were.
C15_UnknownSessionIsNotFound ==
    [][(/\ \E op \in SessionHandlers : IsCall(op)
        /\ server'.last.sessionId \notin DOMAIN server.sessions)
          => /\ ~server'.last.ok
             /\ server'.last.error = NotFound
             /\ server'.sessions = server.sessions
             /\ server'.file = server.file
             /\ server'.pending = server.pending
             /\ server'.specs = server.specs]_vars

\* the step is a successful answer call on the session id
IsAnswerTo(id) ==
    /\ IsCall("answerQuestion")
    /\ server'.last.ok
    /\ server'.last.sessionId = id

\* the session has the same cursor and the same answers in both
SameAnswers(old, new) ==
    /\ new.currentQuestionIndex = old.currentQuestionIndex
    /\ Len(new.responses) = Len(old.responses)
    /\ \A i \in ResponseIndexes(old) :
           /\ new.responses[i].questionId = old.responses[i].questionId
           /\ new.responses[i].value = old.responses[i].value

\* C16: answer calls on one session are applied one after the other, so
\* that two of them advance its cursor by two and neither answer is dropped
\* from the session in memory. A successful answer call applies one answer
\* to the session the map holds when the call starts and stores the result
\* in the same step: the cursor of that session goes up by one, the answer
\* is recorded, every response to another question is kept and no other
\* session changes. And no step that is not a successful answer call on a
\* session changes the cursor or the answers that session has in memory.
C16_AnswerIsAtomic ==
    [][/\ \A id \in DOMAIN server.sessions \cap DOMAIN server'.sessions :
              ~IsAnswerTo(id) =>
                  SameAnswers(server.sessions[id], server'.sessions[id])
       /\ (IsCall("answerQuestion") /\ server'.last.ok)
          => LET id == server'.last.sessionId
             IN  /\ id \in DOMAIN server.sessions
                 /\ DOMAIN server'.sessions = DOMAIN server.sessions
                 /\ \A x \in DOMAIN server.sessions \ {id} :
                        server'.sessions[x] = server.sessions[x]
                 /\ LET old == server.sessions[id]
                        new == server'.sessions[id]
                        asked == getCurrentQuestion(fromSession(old))
                    IN  /\ asked # <<>>
                        /\ new.currentQuestionIndex =
                               old.currentQuestionIndex + 1
                        /\ HasAnswer(new, asked[1].id, server'.last.value)
                        /\ \A i \in ResponseIndexes(old) :
                               old.responses[i].questionId # asked[1].id =>
                                   \E j \in ResponseIndexes(new) :
                                       new.responses[j] = old.responses[i]]_vars

\* the ids of the sessions in the sessions file
PersistedIds(srv) ==
    IF srv.file = NoFile THEN {} ELSE DOMAIN srv.file[1].data

\* the step is the open of the k-th write in flight, which truncates a
\* sessions file that held a text
IsTruncation(k) ==
    /\ server.file # NoFile
    /\ server.file[1].valid
    /\ k \in 1..Len(server.pending)
    /\ ~server.pending[k].opened
    /\ server' = writeFile(server, k)

\* C17: no step takes a session out of the session map, so that every later
\* call finds a session that was created; and a write that truncates the
\* sessions file carries every session the file held, so that the sessions
\* persisted before the start are in the text that replaces them.
C17_SessionsAreNeverLost ==
    [][/\ DOMAIN server.sessions \subseteq DOMAIN server'.sessions
       /\ \A k \in 1..Len(server.pending) :
              IsTruncation(k) =>
                  PersistedIds(server)
                      \subseteq DOMAIN server.pending[k].text.data]_vars

-----------------------------------------------------------------------------
(* Vocabulary of the properties of the generated document.                 *)

SectionTitles == <<"Overview", "User Stories", "Functional Requirements",
                   "Edge Cases", "UI/UX Requirements",
                   "Technical Constraints", "Acceptance Criteria",
                   "Dependencies">>

\* generateMarkdown has been called
Generated == generator.markdown # <<>>

\* the answer to a question, as the generator reads it
AnswerText(questionId) == getResponseValue(generator.responses, questionId)

\* the string part stands in the string s from position p on
OccursAt(s, p, part) ==
    /\ p + Len(part) - 1 <= Len(s)
    /\ SubSeq(s, p, p + Len(part) - 1) = part

\* a line of the document starts at p with the header of the section
HeaderAt(md, p, title) ==
    /\ p = 1 \/ md[p - 1] = "\n"
    /\ OccursAt(md, p, <<"##", " ", title, "\n", "\n">>)

HasHeader(md, title) == \E p \in 1..Len(md) : HeaderAt(md, p, title)

\* what stands between the header of the section and the blank line before
\* the next header or the footer
SectionBody(md, title) ==
    LET p == CHOOSE p \in 1..Len(md) : HeaderAt(md, p, title)
        q == CHOOSE q \in (p + 1)..Len(md) :
                 /\ md[q] \in {"##", "---"}
                 /\ \A k \in (p + 1)..(q - 1) : md[k] \notin {"##", "---"}
    IN  SubSeq(md, p + 5, q - 3)

\* C18: when the target-users answer parses to the non-empty list U and the
\* core-functionality answer to the non-empty list F, the body of the User
\* Stories section is the |U| x |F| bullets "As a u, I want f so that v.",
\* one for every pair, user by user; each is one line when the business
\* value is.
C18_UserStoriesAreCrossProduct ==
    LET userTypes == parseListItems(AnswerText("target-users"))
        functions == parseListItems(AnswerText("core-functionality"))
        businessValue == AnswerText("business-value")
        count == Len(userTypes) * Len(functions)
        body == SectionBody(generator.markdown, "User Stories")
    IN  (Generated /\ Len(userTypes) > 0 /\ Len(functions) > 0) =>
            /\ HasHeader(generator.markdown, "User Stories")
            /\ \A i \in 1..Len(userTypes), j \in 1..Len(functions) :
                   \E p \in 1..Len(body) :
                       LET bullet ==
                               <<"-", " ", "As a", " ">>
                                   \o toLowerCase(userTypes[i])
                                   \o <<",", " ", "I want", " ">>
                                   \o toLowerCase(functions[j])
                                   \o <<" ", "so that", " ">>
                                   \o (IF businessValue = <<>>
                                       THEN <<"I can achieve my goals">>
                                       ELSE businessValue)
                                   \o <<".">>
                       IN  /\ OccursAt(body, p, bullet)
                           /\ Cardinality({k \in 1..(p - 1) :
                                  OccursAt(body, k, <<"-", " ", "As a", " ">>)})
                                  = (i - 1) * Len(functions) + (j - 1)
            /\ Cardinality({k \in 1..Len(body) :
                   OccursAt(body, k, <<"-", " ", "As a", " ">>)}) = count
            /\ (\A k \in 1..Len(businessValue) : businessValue[k] # "\n")
                   => Len(split(body, {"\n"})) = count

\* "Admin, Guest" with "create posts, delete posts": four bullets on four
\* lines
C18_Witness ==
    /\ Generated
    /\ AnswerText("target-users") = Chars("Admin, Guest")
    /\ AnswerText("core-functionality") = Chars("create posts, delete posts")
    /\ Len(split(SectionBody(generator.markdown, "User Stories"), {"\n"})) = 4

\* every header of the document has a body
EveryHeaderHasBody ==
    \A k \in 1..Len(SectionTitles) :
        HasHeader(generator.markdown, SectionTitles[k]) =>
            SectionBody(generator.markdown, SectionTitles[k]) # <<>>

\* C19 as stated: when the edge-cases and the error-scenarios answers are
\* both empty strings the document has no Edge Cases header, whatever the
\* other answers; and every header of the document has a non-empty body.
C19_NoEdgeCasesWhenBothEmpty ==
    Generated =>
        /\ (AnswerText("edge-cases") = <<>>
            /\ AnswerText("error-scenarios") = <<>>)
               => ~HasHeader(generator.markdown, "Edge Cases")
        /\ EveryHeaderHasBody

\* C19, amended: when the edge-cases, the error-scenarios and the
\* validation-rules answers are all empty strings the document has no Edge
\* Cases header, whatever the other answers; and every header of the
\* document has a non-empty body.
C19_NoEdgeCasesWhenAllEmpty ==
    Generated =>
        /\ (AnswerText("edge-cases") = <<>>
            /\ AnswerText("error-scenarios") = <<>>
            /\ AnswerText("validation-rules") = <<>>)
               => ~HasHeader(generator.markdown, "Edge Cases")
        /\ EveryHeaderHasBody

\* the three answers are empty strings, other answers are not, and the
\* document has other sections and no Edge Cases
C19_Witness ==
    /\ Generated
    /\ \E i \in 1..Len(generator.responses) :
           /\ generator.responses[i].questionId
                  \in {"edge-cases", "error-scenarios"}
           /\ generator.responses[i].value = Str("")
    /\ AnswerText("edge-cases") = <<>>
    /\ AnswerText("error-scenarios") = <<>>
    /\ AnswerText("validation-rules") = <<>>
    /\ HasHeader(generator.markdown, "Functional Requirements")
    /\ ~HasHeader(generator.markdown, "Edge Cases")

\* the body the generator computes for the k-th section
SectionContent(responses, k) ==
    CASE k = 1 -> getResponseValue(responses, "feature-overview")
      [] k = 2 -> formatUserStories(responses)
      [] k = 3 -> formatFunctionalRequirements(responses)
      [] k = 4 -> formatEdgeCases(responses)
      [] k = 5 -> formatUiUxRequirements(responses)
      [] k = 6 -> formatTechnicalConstraints(responses)
      [] k = 7 -> formatAcceptanceCriteria(responses)
      [] OTHER -> formatDependencies(responses)

\* C20: the document starts with the heading of the title; its section
\* headers are those of the sections with a non-empty body, each once and
\* in the fixed order; it ends with the footer, which carries the date.
C20_SectionsInFixedOrder ==
    LET md == generator.markdown
        heading == <<"#", " ", "Feature:", " ">>
                       \o Chars(generator.featureTitle) \o <<"\n", "\n">>
        footer == <<"---", "\n", "\n", "*", "Generated by SpecCraft on", " ",
                    today, "*", "\n">>
        headers == {p \in 1..Len(md) : md[p] = "##"}
        IndexOf(title) == CHOOSE k \in 1..Len(SectionTitles) :
                              SectionTitles[k] = title
    IN  Generated =>
            /\ SubSeq(md, 1, Len(heading)) = heading
            /\ SubSeq(md, Len(md) - Len(footer) + 1, Len(md)) = footer
            /\ \A p \in 1..Len(md) :
                   md[p] = "---" => p = Len(md) - Len(footer) + 1
            /\ \A p \in headers :
                   /\ p > Len(heading)
                   /\ p < Len(md) - Len(footer) + 1
                   /\ \E k \in 1..Len(SectionTitles) :
                          HeaderAt(md, p, SectionTitles[k])
            /\ \A p, q \in headers :
                   p < q => IndexOf(md[p + 2]) < IndexOf(md[q + 2])
            /\ \A k \in 1..Len(SectionTitles) :
                   HasHeader(md, SectionTitles[k])
                       <=> trim(SectionContent(generator.responses, k)) # <<>>

\* a document with its first and its last section and without User Stories
C20_Witness ==
    /\ Generated
    /\ HasHeader(generator.markdown, "Overview")
    /\ HasHeader(generator.markdown, "Dependencies")
    /\ ~HasHeader(generator.markdown, "User Stories")

-----------------------------------------------------------------------------
(* The template and the document of one generator.                         *)

\* both generateMarkdown and generateSpecificationTemplate have been called
Both == Generated /\ generator.templated

\* the items the template lists for the k-th section; the overview is one
\* text
TemplateItems(template, k) ==
    CASE k = 1 -> IF template.overview = <<>> THEN <<>>
                  ELSE <<template.overview>>
      [] k = 2 -> template.userStories
      [] k = 3 -> template.functionalRequirements
      [] k = 4 -> template.edgeCases
      [] k = 5 -> template.uiUxRequirements
      [] k = 6 -> template.technicalConstraints
      [] k = 7 -> template.acceptanceCriteria
      [] OTHER -> template.dependencies

\* the items of a section's body: the overview is one text, the other
\* bodies list one item a line, blank lines apart
BodyItems(md, k) ==
    IF k = 1
    THEN <<SectionBody(md, SectionTitles[k])>>
    ELSE lines(SectionBody(md, SectionTitles[k]))

\* the items without the white space around them
Trimmed(items) == [i \in 1..Len(items) |-> trim(items[i])]

\* the k-th section of the template and of the document agree
InSync(k) ==
    LET md == generator.markdown
        items == TemplateItems(generator.template, k)
    IN  /\ items # <<>> <=> HasHeader(md, SectionTitles[k])
        /\ HasHeader(md, SectionTitles[k]) =>
               Trimmed(items) = Trimmed(BodyItems(md, k))

\* C21: for each of the eight sections the template field is non-empty
\* exactly when the document has the section's header, and the field lists
\* the items of the section's body, in their order.
C21_TemplateMatchesMarkdown ==
    Both => \A k \in 1..Len(SectionTitles) : InSync(k)

-----------------------------------------------------------------------------
(* Completion and the cursor after an answer.                              *)

\* the cursor of an engine and the length of its eligible sequence
Cursor(eng) == eng.session.currentQuestionIndex
EligibleLen(eng) == Len(getAvailableQuestions(eng))

\* the questions the last call made eligible
NewlyEligible == AvailableIds(Current) \ AvailableIds(before)

\* the last call answered the question at the last eligible position
AnsweredLast == AnswerSucceeded /\ Cursor(before) = EligibleLen(before) - 1

\* C22: an answer marks the session complete exactly when the advanced
\* cursor reaches the length of the eligible sequence recomputed after the
\* answer is recorded: an answer at the last eligible position that makes a
\* further question eligible leaves the session incomplete with the newly
\* eligible question current, and an answer that makes questions
\* ineligible, so that the cursor reaches the new length, completes it.
C22_CompletionAfterRecompute ==
    AnswerSucceeded =>
        /\ (~before.session.isComplete) =>
               (session.isComplete <=> Cursor(Current) >= EligibleLen(Current))
        /\ (AnsweredLast /\ NewlyEligible # {}) =>
               /\ ~session.isComplete
               /\ getCurrentQuestion(Current) # <<>>
               /\ getCurrentQuestion(Current)[1].id \in NewlyEligible
        /\ (EligibleLen(Current) < EligibleLen(before)
                /\ Cursor(Current) >= EligibleLen(Current)) =>
               session.isComplete

-----------------------------------------------------------------------------
(* Eligibility by strict equality.                                         *)

\* the value answers a rule exactly: a boolean for a boolean rule and a
\* string for a string rule, with the same content
AnswersRule(value, rule) ==
    CASE rule.value.kind = "boolean" ->
             value.kind = "boolean" /\ value.bool = rule.value.bool
      [] rule.value.kind = "string" ->
             value.kind = "string" /\ value.str = rule.value.str
      [] OTHER -> FALSE

\* C23: a question with a dependency rule is eligible exactly when the
\* referenced question has a recorded answer of the rule's type and
\* content; a rule requiring the boolean true is not met by the string
\* "true" nor by any other truthy value, no rule is met while its question
\* is unanswered, and a question without a rule is always eligible.
C23_EligibleIffStrictlyEqual ==
    LET available == getAvailableQuestions(Current)
        eligible == {available[k] : k \in 1..Len(available)}
    IN  /\ \A k \in 1..Len(questions) :
               LET question == questions[k]
               IN  question \in eligible <=>
                       \/ question.dependsOn = <<>>
                       \/ \E i \in ResponseIndexes(session) :
                              /\ session.responses[i].questionId =
                                     question.dependsOn[1].questionId
                              /\ AnswersRule(session.responses[i].value,
                                             question.dependsOn[1])
        /\ (\E q \in eligible : q.id = "security-requirements")
               <=> HasAnswer(session, "sensitive-data", Bool(TRUE))

\* sensitive-data is answered with the string "true" and
\* security-requirements is not eligible
C23_Witness ==
    /\ HasAnswer(session, "sensitive-data", Str("true"))
    /\ "security-requirements" \notin AvailableIds(Current)

-----------------------------------------------------------------------------
(* A session that is only answered: the catalog is fixed before the first  *)
(* answer, with at most MaxPreAdded follow-up questions added to the new   *)
(* engine; then every call is answerCurrentQuestion, with a value the      *)
(* current question accepts while there is one, and once more when there   *)
(* is none.                                                                *)

MaxPreAdded == 1
MaxAnsweringSteps == 30

\* the session is as the constructor made it
Untouched == session.currentQuestionIndex = 0 /\ session.responses = <<>>

PreAdd ==
    /\ now < MaxAnsweringSteps
    /\ Untouched
    /\ Len(questions) < Len(baseQuestions) + MaxPreAdded
    /\ \E question \in DynamicQuestions : AddDynamicQuestion(question)

AnswerAccepted ==
    /\ now < MaxAnsweringSteps
    /\ getCurrentQuestion(Current) # <<>>
    /\ \E value \in LongValues(getCurrentQuestion(Current)[1]) :
           /\ answerCurrentQuestion(Current, value, now + 1).ok
           /\ AnswerCurrentQuestion(value)

AnswerWithoutQuestion ==
    /\ now < MaxAnsweringSteps
    /\ getCurrentQuestion(Current) = <<>>
    /\ lastOp.ok
    /\ AnswerCurrentQuestion(Str("a"))

NextAnswering ==
    \/ PreAdd
    \/ AnswerAccepted
    \/ AnswerWithoutQuestion

\* the caller keeps answering: an accepted answer that stays possible is
\* given
FairAnswering ==
    Init /\ [][NextAnswering]_vars /\ WF_vars(AnswerAccepted)

\* C24: a new session that is only answered, with accepted values,
\* eventually is complete; the cursor, which counts the answers, never
\* passes the number of catalog questions; until the session is complete
\* there is a current question, and once it is complete every further
\* answerCurrentQuestion throws "No current question to answer".
C24_AnsweringTerminates ==
    /\ <>isComplete(Current)
    /\ [](Cursor(Current) <= Len(questions))
    /\ [](~isComplete(Current) => getCurrentQuestion(Current) # <<>>)
    /\ [](isComplete(Current) =>
              \A value \in Values :
                  answerCurrentQuestion(Current, value, now + 1)
                      = Thrown(Current, "No current question to answer"))

\* the complete session was answered once more, and the call failed
C24_Witness ==
    /\ AnswerFailed
    /\ isComplete(before)
    /\ Cursor(Current) = EligibleLen(Current)

-----------------------------------------------------------------------------
\* C25: addDynamicQuestion leaves the cursor, the responses and the
\* completion flag as they were, as the id and the creation date; it sets
\* updatedAt and makes the catalog one question longer; the current
\* question after the call is the one at the unchanged cursor in the
\* eligible sequence of the new catalog under the unchanged answers.
C25_AddDynamicQuestionFrame ==
    lastOp.name = "addDynamicQuestion" =>
        LET eligible == EligibleUnder(questions, AnswerMap(before.session))
        IN  /\ session = [before.session EXCEPT !.updatedAt = now]
            /\ session.currentQuestionIndex
                   = before.session.currentQuestionIndex
            /\ session.responses = before.session.responses
            /\ session.isComplete = before.session.isComplete
            /\ Len(questions) = Len(before.questions) + 1
            /\ getCurrentQuestion(Current)
                   = IF session.currentQuestionIndex < Len(eligible)
                     THEN <<eligible[session.currentQuestionIndex + 1]>>
                     ELSE <<>>

\* a question is added to a complete session and is its current question
\* from then on
C25_Witness ==
    /\ lastOp.name = "addDynamicQuestion"
    /\ before.session.isComplete
    /\ getCurrentQuestion(before) = <<>>
    /\ getCurrentQuestion(Current) # <<>>
    /\ getCurrentQuestion(Current)[1].id = lastOp.questionId

-----------------------------------------------------------------------------
\* C26: no call removes an answer. Every question answered before a call
\* is answered after it, with the value it had unless the call answered
\* that very question; an answer whose question is no longer eligible stays
\* in the session and is counted by getProgress(), whose current is the
\* number of answered questions capped at the number of eligible ones.
C26_AnswersAreNeverRemoved ==
    /\ AnsweredIds(before.session) \subseteq AnsweredIds(session)
    /\ \A id \in AnsweredIds(before.session) :
           \/ AnswerSucceeded /\ AskedBefore[1].id = id
           \/ AnswerMap(session)[id] = AnswerMap(before.session)[id]
    /\ getProgress(Current).current
           = Min(Cardinality(AnsweredIds(session)), EligibleLen(Current))

\* the last answer made an answered question ineligible, and the session
\* holds more answers than there are eligible questions
C26_Witness ==
    /\ AnswerSucceeded
    /\ \E id \in AnsweredIds(session) :
           id \in AvailableIds(before) /\ id \notin AvailableIds(Current)
    /\ Cardinality(AnsweredIds(session)) > EligibleLen(Current)

-----------------------------------------------------------------------------
\* C27: in every state the cursor is at least 0 and at most the length of
\* the eligible sequence computed from the current catalog and answers.
C27_CursorWithinEligible ==
    /\ 0 <= Cursor(Current)
    /\ Cursor(Current) <= EligibleLen(Current)

-----------------------------------------------------------------------------
\* the engine rebuilt from the session of the current one
Restored == fromSession(getSession(Current))

\* C28: the engine rebuilt by fromSession from getSession() has the cursor,
\* the answers and the completion flag of the original, and the same
\* eligible sequence, current question and progress, also when dynamic
\* questions were added to the original.
C28_RoundTripKeepsEngine ==
    /\ Restored.session.currentQuestionIndex = session.currentQuestionIndex
    /\ Restored.session.responses = session.responses
    /\ Restored.session.isComplete = session.isComplete
    /\ getAvailableQuestions(Restored) = getAvailableQuestions(Current)
    /\ getCurrentQuestion(Restored) = getCurrentQuestion(Current)
    /\ getProgress(Restored) = getProgress(Current)

-----------------------------------------------------------------------------
(* The sessions file and the session map.                                  *)

\* initializeStorage has finished, no fs.writeFile is in flight and no call
\* is waiting for one
Quiescent ==
    /\ server.init = "done"
    /\ server.pending = <<>>
    /\ server.specs.generating = <<>>

\* C29: once initializeStorage and every call and file write have
\* finished, the sessions file that was written holds the text of the
\* session map in memory: of the snapshots the saves took, the newest is
\* the one that stays.
C29_FileConvergesToMemory ==
    (Quiescent /\ server.file # NoFile) =>
        server.file = <<Text(server.sessions, server.idCharacters)>>

-----------------------------------------------------------------------------
(* A forward-only session: the caller answers the current question, and    *)
(* adds one follow-up question at some point; there is no navigation.      *)

NextForward ==
    \/ LongAnswer
    \/ LongFollowUp

SpecForward == Init /\ [][NextForward]_vars

\* C30: in a session driven by answerCurrentQuestion and addDynamicQuestion
\* alone, whenever isComplete() is true every eligible question has a
\* response, and getUnansweredRequiredQuestions() is empty.
C30_CompleteMeansAllAnswered ==
    isComplete(Current) =>
        /\ AvailableIds(Current) \subseteq AnsweredIds(session)
        /\ getUnansweredRequiredQuestions(Current) = <<>>

====
